---- MODULE Spec2Model ----
(***************************************************************************)
(* A model of moltbook-cli.py: the authenticated HTTP request pipeline    *)
(* (MoltbookClient.request), the credential store (_load_saved_credentials*)
(* and _save_credentials) and the start-up / menu code that uses them.    *)
(*                                                                         *)
(* Strings are sequences of one-character strings.  Times are in tenths   *)
(* of a second so that RETRY_BACKOFF_SECONDS = 1.5 is the integer 15.     *)
(***************************************************************************)
EXTENDS Integers, Sequences, FiniteSets, TLC

VARIABLES
    \* ---- one call of MoltbookClient.request -------------------------------
    baseHost,      \* host part of BASE_URL (line 17)
    method,        \* method.upper()
    hasJson,       \* json_body is not None
    hasRaw,        \* raw_body is not None
    includeAuth,   \* include_auth
    expectedJson,  \* expected_json
    apiKey,        \* client.api_key ("" when None)
    authDebug,     \* client.auth_debug
    rpc,           \* position inside request()
    attempt,       \* loop variable of line 313
    sleeps,        \* arguments of the time.sleep calls made so far
    outcomes,      \* how each urlopen call made so far ended
    sent,          \* number of HTTP requests put on the network so far
    lastReq,       \* the latest of them (in the menu: of the running action), or NoReq
    pending,       \* the 3xx response urllib is about to follow, or NoResp
    hops,          \* redirects followed inside the current urlopen call
    result,        \* what request() returned or raised
    \* ---- the credential file and one call of _save_credentials ------------
    fs,            \* the files at CREDENTIALS_PATH and CREDENTIALS_PATH + ".tmp"
    fs0,           \* the credential file as it was at the start
    saveKey,       \* api_key argument of _save_credentials
    saveName,      \* agent_name argument of _save_credentials
    spc,           \* position inside _save_credentials
    crashedAt,     \* the position at which the process died, or "none"
    loaded,        \* what _load_saved_credentials returned, or NotLoaded
    \* ---- the program: _bootstrap and the loop of menu() -------------------
    ppc,           \* position of the program
    envRaw,        \* os.environ.get("MOLTBOOK_API_KEY", "")
    consulted,     \* the key sources _bootstrap has consulted, in order
    bootKey,       \* client.api_key when _bootstrap returned
    newKey,        \* new_key of the registration being handled
    out,           \* texts printed since the last prompt of the menu
    called,        \* the client method called since then, or "none"
    exitCode,      \* exit status of the process, NoExit while it runs
    exitCause,     \* why the process ended: "quit", "interrupt", "error"; else "none"
    \* ---- _sanitize_key and _mask_key applied to one text ------------------
    kpc,           \* which of the two functions have been applied
    keyRaw,        \* the text handed to _sanitize_key
    keyClean,      \* _sanitize_key(keyRaw)
    keyAgain,      \* _sanitize_key(keyClean)
    keyMasked      \* _mask_key(keyClean)

clientVars == <<apiKey, authDebug>>

callRest == <<baseHost, method, hasJson, hasRaw, includeAuth, expectedJson,
              rpc, attempt, sleeps, outcomes, sent, pending, hops, result>>

callVars == <<callRest, lastReq>>

reqVars == <<clientVars, callVars>>

saveVars == <<fs, fs0, saveKey, saveName, spc, crashedAt, loaded>>

mainVars == <<ppc, envRaw, consulted, bootKey, newKey, out, called, exitCode, exitCause>>

keyVars == <<kpc, keyRaw, keyClean, keyAgain, keyMasked>>

vars == <<reqVars, saveVars, mainVars, keyVars>>

----------------------------------------------------------------------------
(* Program constants *)

CanonicalHost == "www.moltbook.com"
ApexHost == "moltbook.com"
NoHost == ""

MAX_RETRIES_IDEMPOTENT == 2
RETRY_BACKOFF_TENTHS == 15

\* ApiError.status when no status was given (None)
NoStatus == 0

\* the process has not exited
NoExit == -1

(* Bounds *)

\* how many redirects one urlopen call may follow in the model
MaxRedirects == 2

\* longest string typed, pasted or received as an API key
MaxKeyLen == 3

\* number of pieces in which the credential record reaches the file system
RecordChunks == 2

\* longest key handed to _mask_key: one more than the 12 of line 122
MaxMaskLen == 13

----------------------------------------------------------------------------
(* Strings *)

DQ == "\""
SQ == "'"
SP == " "
\* stands for the zero-width characters U+200B, U+200C, U+200D and U+FEFF
ZW == "z"
BSL == "\\"

Chars == {"a", DQ, SQ, SP, ZW}

Strings(n) == UNION {[1..k -> Chars] : k \in 0..n}

RECURSIVE LStrip(_)
LStrip(s) == IF s # <<>> /\ Head(s) = SP THEN LStrip(Tail(s)) ELSE s

RECURSIVE RStrip(_)
RStrip(s) ==
    IF s # <<>> /\ s[Len(s)] = SP THEN RStrip(SubSeq(s, 1, Len(s) - 1)) ELSE s

\* str.strip()
Strip(s) == RStrip(LStrip(s))

NotZeroWidth(c) == c # ZW
NotSpace(c) == c # SP

SanitizeKeyEndsOnly(raw) ==
    LET s1 == Strip(raw)
    IN  IF Len(s1) >= 2 /\ s1[1] = s1[Len(s1)] /\ s1[1] \in {SQ, DQ}
        THEN Strip(SubSeq(s1, 2, Len(s1) - 1))
        ELSE s1

\* _sanitize_key
SanitizeKey(raw) ==
    LET s1 == Strip(raw)
        s2 == IF Len(s1) >= 2 /\ s1[1] = s1[Len(s1)] /\ s1[1] \in {SQ, DQ}
              THEN Strip(SubSeq(s1, 2, Len(s1) - 1))
              ELSE s1
        s3 == SelectSeq(s2, NotZeroWidth)
    IN  SelectSeq(s3, NotSpace)

\* json.dumps of a string: the text between the quotes of the literal
RECURSIVE JsonEscape(_)
JsonEscape(s) ==
    IF s = <<>> THEN <<>>
    ELSE (IF Head(s) \in {DQ, BSL} THEN <<BSL, Head(s)>> ELSE <<Head(s)>>)
         \o JsonEscape(Tail(s))

\* json.load of that text
RECURSIVE JsonUnescape(_)
JsonUnescape(t) ==
    IF t = <<>> THEN <<>>
    ELSE IF Head(t) = BSL /\ Len(t) >= 2
         THEN <<t[2]>> \o JsonUnescape(Tail(Tail(t)))
         ELSE <<Head(t)>> \o JsonUnescape(Tail(t))

----------------------------------------------------------------------------
(* _ensure_www *)

\* (parsed.hostname or "").lower()
Lower(h) == IF h = "WWW.MOLTBOOK.COM" THEN "www.moltbook.com" ELSE h

BaseHosts == {CanonicalHost, "WWW.MOLTBOOK.COM", ApexHost, "evil.example", NoHost}

EnsureWwwAnyHostOk(h) == TRUE

\* TRUE when _ensure_www returns the url, FALSE when it raises ValueError
EnsureWwwOk(h) ==
    LET host == Lower(h) IN
    /\ host # ApexHost
    /\ ~ (host # NoHost /\ host # CanonicalHost)

----------------------------------------------------------------------------
(* MoltbookClient.request *)

Methods == {"GET", "HEAD", "OPTIONS", "POST", "PATCH", "DELETE"}

IsIdempotentAll(m) == TRUE

\* line 309
IsIdempotent(m) == m \in {"GET", "HEAD", "OPTIONS"}

\* line 310
Retries(m) == IF IsIdempotent(m) THEN MAX_RETRIES_IDEMPOTENT ELSE 0

BackoffConstant(a) == RETRY_BACKOFF_TENTHS

\* lines 355 and 365: RETRY_BACKOFF_SECONDS * (attempt + 1)
Backoff(a) == RETRY_BACKOFF_TENTHS * (a + 1)

\* bodies of a response: no bytes, text that is no JSON, the JSON object
\* {"id":"p1","title":"hi"}, the JSON object
\* {"error":"rate limited","retry_after_seconds":30}, a JSON list
BodyKinds == {"empty", "nonjson", "obj", "rate_obj", "nonobj"}

\* isinstance(json.loads(body), dict)
JsonObject(b) == b \in {"obj", "rate_obj"}

\* the mapping json.loads makes of a body ({} stands for everything else)
Parsed(b) ==
    CASE b = "obj" -> [id |-> "p1", title |-> "hi"]
      [] b = "rate_obj" -> [error |-> "rate limited", retry_after_seconds |-> 30]
      [] OTHER -> <<>>

NoResp == [kind |-> "none", status |-> NoStatus, body |-> "empty", loc |-> NoHost]

RedirectTargets == {ApexHost, "evil.example"}

\* What one HTTP exchange can end in: a response with a status, or an
\* exception of the transport.
Responses ==
    [kind : {"http"}, status : {200, 201}, body : BodyKinds, loc : {NoHost}]
    \cup [kind : {"http"}, status : {302, 304, 307}, body : {"empty"},
          loc : RedirectTargets]
    \cup [kind : {"http"}, status : {401, 429, 500}, body : BodyKinds, loc : {NoHost}]
    \cup [kind : {"timeout", "url_timeout", "ssl", "urlerror", "other"},
          status : {NoStatus}, body : {"empty"}, loc : {NoHost}]

Ok(data, status) ==
    [kind |-> "ok", msg |-> "", status |-> status, data |-> data]
Err(kind, msg, status, data) ==
    [kind |-> kind, msg |-> msg, status |-> status, data |-> data]
NoResult == [kind |-> "none", msg |-> "", status |-> NoStatus, data |-> "none"]

\* fields of the mapping request() hands to its caller
ResultFields(r) ==
    IF r.kind = "ok" THEN DOMAIN Parsed(r.data) ELSE {}

\* err.details of the ApiError request() raised
Details(e) == Parsed(e.data)

\* urllib's default opener, reached from urlopen at line 315: a 302 or 307
\* answer to a GET or HEAD, and a 302 answer to a POST, is followed by a new
\* GET request to the Location; every other 3xx (a 304, say) raises HTTPError.
Follows(m, status) ==
    \/ status \in {302, 307} /\ m \in {"GET", "HEAD"}
    \/ status = 302 /\ m = "POST"

WireReq(h, m, auth, via) ==
    [host |-> h, method |-> m, auth |-> auth, viaRedirect |-> via]
NoReq == WireReq(NoHost, "", <<>>, FALSE)

\* line 295
BodyConflict == hasJson /\ hasRaw

KeyMissingNever == FALSE

\* lines 265-267, reached from line 299: _headers finds no key to send
KeyMissing == includeAuth /\ apiKey = <<>>

\* lines 286-310: everything request() does before the retry loop
ReqPrepare ==
    /\ rpc = "start"
    /\ UNCHANGED <<baseHost, method, hasJson, hasRaw, includeAuth, expectedJson,
                   apiKey, authDebug, sleeps, outcomes, sent, lastReq, pending, hops,
                   attempt, saveVars, mainVars, keyVars>>
    /\ IF ~ EnsureWwwOk(baseHost)
       THEN /\ rpc' = "done"
            /\ result' = Err("ValueError", "Refusing host", NoStatus, "none")
       ELSE IF BodyConflict
       THEN /\ rpc' = "done"
            /\ result' = Err("ValueError", "Provide either json_body or raw_body, not both.",
                             NoStatus, "none")
       ELSE IF KeyMissing
       THEN /\ rpc' = "done"
            /\ result' = Err("ValueError", "API key is not set for this operation.",
                             NoStatus, "none")
       ELSE IF Lower(baseHost) = NoHost
       THEN \* a URL without a host: Request() rejects a URL without a scheme
            \* (line 307), urlopen one with a scheme ("no host given", line 360)
            /\ rpc' = "done"
            /\ \/ result' = Err("ValueError", "unknown url type", NoStatus, "none")
               \/ result' = Err("ApiError", "Network error", NoStatus, "none")
       ELSE /\ rpc' = "try"
            /\ result' = NoResult

\* lines 316-324: a 2xx response
HandleSuccess(r) ==
    /\ rpc' = "done"
    /\ UNCHANGED <<attempt, sleeps>>
    /\ result' =
         IF ~ expectedJson THEN Ok("bytes", NoStatus)
         ELSE IF r.body = "empty" THEN Ok("empty_dict", NoStatus)
         ELSE IF r.body = "nonjson"
              \* the ApiError of line 324 is caught at line 369 and a new one,
              \* without status, is raised at line 371
              THEN Err("ApiError", "Unexpected error: Server returned non-JSON response.",
                       NoStatus, "empty_dict")
         ELSE Ok(r.body, NoStatus)

HandleHttpErrorNoDetails(r) ==
    /\ rpc' = "done"
    /\ UNCHANGED <<attempt, sleeps>>
    /\ result' = Err("ApiError", "HTTP", r.status, "empty_dict")

\* lines 325-351: HTTPError
HandleHttpError(r) ==
    /\ rpc' = "done"
    /\ UNCHANGED <<attempt, sleeps>>
    /\ result' = Err("ApiError", "HTTP", r.status,
                     IF JsonObject(r.body) THEN r.body ELSE "empty_dict")

\* lines 352-357 and 362-367: a timeout
HandleTimeout(r) ==
    IF attempt < Retries(method)
    THEN /\ sleeps' = Append(sleeps, Backoff(attempt))
         /\ attempt' = attempt + 1
         /\ rpc' = "try"
         /\ UNCHANGED result
    ELSE /\ rpc' = "done"
         /\ UNCHANGED <<attempt, sleeps>>
         /\ result' = Err("ApiError", "Request timed out. Increase timeout or retry later.",
                          NoStatus, "empty_dict")

HandleFailureRetrying(r) ==
    IF attempt < Retries(method)
    THEN /\ sleeps' = Append(sleeps, Backoff(attempt))
         /\ attempt' = attempt + 1
         /\ rpc' = "try"
         /\ UNCHANGED result
    ELSE /\ rpc' = "done"
         /\ UNCHANGED <<attempt, sleeps>>
         /\ result' = Err("ApiError", "Network error", NoStatus, "empty_dict")

\* lines 358-359, 368 and 369-371: the failures that are not timeouts
HandleFailure(r) ==
    /\ rpc' = "done"
    /\ UNCHANGED <<attempt, sleeps>>
    /\ result' = Err("ApiError",
                     CASE r.kind = "ssl" -> "TLS/SSL error"
                       [] r.kind = "urlerror" -> "Network error"
                       [] OTHER -> "Unexpected error",
                     NoStatus, "empty_dict")

\* the except clauses of lines 315-371 applied to how the urlopen call ended
Handle(r) ==
    /\ outcomes' = Append(outcomes, r)
    /\ pending' = NoResp
    /\ CASE r.kind = "http" /\ r.status < 300 -> HandleSuccess(r)
         [] r.kind = "http" /\ r.status >= 300 -> HandleHttpError(r)
         [] r.kind \in {"timeout", "url_timeout"} -> HandleTimeout(r)
         [] OTHER -> HandleFailure(r)

\* the exchange ended in response r: urllib follows it or hands it to request()
Exchange(r, m) ==
    IF r.kind = "http" /\ r.status \in 300..399 /\ Follows(m, r.status)
       /\ hops' < MaxRedirects
    THEN /\ pending' = r
         /\ rpc' = "follow"
         /\ UNCHANGED <<attempt, sleeps, outcomes, result>>
    ELSE Handle(r)

\* lines 265-268: the key _headers puts in "Authorization: Bearer <key>",
\* <<>> when it sets no Authorization header
Headers(include_auth, key) == IF include_auth THEN key ELSE <<>>

AuthHeader == Headers(includeAuth, apiKey)

\* line 315: urlopen sends the request
ReqAttempt ==
    /\ rpc = "try"
    /\ sent' = sent + 1
    /\ lastReq' = WireReq(Lower(baseHost), method, AuthHeader, FALSE)
    /\ hops' = 0
    /\ UNCHANGED <<baseHost, method, hasJson, hasRaw, includeAuth, expectedJson,
                   apiKey, authDebug, saveVars, mainVars, keyVars>>
    /\ \E r \in Responses : Exchange(r, method)

\* line 315, inside urlopen: the redirect handler re-sends the request, with
\* its headers, as a GET to the Location of the 3xx response
ReqFollow ==
    /\ rpc = "follow"
    /\ sent' = sent + 1
    /\ lastReq' = WireReq(pending.loc, "GET", AuthHeader, TRUE)
    /\ hops' = hops + 1
    /\ UNCHANGED <<baseHost, method, hasJson, hasRaw, includeAuth, expectedJson,
                   apiKey, authDebug, saveVars, mainVars, keyVars>>
    /\ \E r \in Responses : Exchange(r, "GET")

----------------------------------------------------------------------------
(* The credential file: _load_saved_credentials and _save_credentials *)

CredPath == "credentials.json"

TmpPathInPlace == CredPath

\* line 174
TmpPath == "credentials.json.tmp"

Paths == {CredPath, TmpPath}

\* permission bits: owner read, owner write, group read, others read
Mode600 == {"ur", "uw"}
Mode644 == {"ur", "uw", "gr", "or"}

\* a JSON value found under a key of the record: absent, null or a string
\* (kept as the escaped text of its literal)
JMissing == [t |-> "missing", s |-> <<>>]
JNull == [t |-> "null", s |-> <<>>]
JStr(s) == [t |-> "str", s |-> JsonEscape(s)]

\* str(data.get(key, ""))
PyStr(v) ==
    CASE v.t = "missing" -> <<>>
      [] v.t = "null" -> <<"N", "o", "n", "e">>
      [] OTHER -> JsonUnescape(v.s)

\* A file: the text it is (a prefix of), how many of the RecordChunks pieces
\* of that text are in the file, how many of them are on stable storage,
\* and its permission bits.
File(kind, key, name, len, synced, mode) ==
    [exists |-> TRUE, kind |-> kind, api_key |-> key, agent_name |-> name,
     len |-> len, synced |-> synced, mode |-> mode]

Absent ==
    [exists |-> FALSE, kind |-> "none", api_key |-> JMissing, agent_name |-> JMissing,
     len |-> 0, synced |-> 0, mode |-> {}]

OldKey == <<"o", "l", "d">>
OldName == <<"o">>

\* lines 171-172: the record json.dumps writes
Record(key, name, mode, len, synced) ==
    File("obj", JStr(key), JStr(name), len, synced, mode)

Payload(mode, len, synced) == Record(saveKey, saveName, mode, len, synced)

\* what a file holds, whatever its permissions and durability
Content(f) == [exists |-> f.exists, kind |-> f.kind, api_key |-> f.api_key,
               agent_name |-> f.agent_name, len |-> f.len]

NewContent == Content(Payload(Mode600, RecordChunks, RecordChunks))

NoCreds == [called |-> TRUE, found |-> FALSE, api_key |-> <<>>, agent_name |-> <<>>]
NotLoaded == [called |-> FALSE, found |-> FALSE, api_key |-> <<>>, agent_name |-> <<>>]

LoadSavedCredentialsUnsanitized(f) ==
    IF f.exists /\ "ur" \in f.mode /\ f.len = RecordChunks /\ f.kind = "obj"
       /\ PyStr(f.api_key) # <<>>
    THEN [called |-> TRUE, found |-> TRUE, api_key |-> PyStr(f.api_key),
          agent_name |-> PyStr(f.agent_name)]
    ELSE NoCreds

\* _load_saved_credentials applied to the file at CREDENTIALS_PATH
LoadSavedCredentials(f) ==
    IF ~ f.exists THEN NoCreds                                  \* line 154
    ELSE IF "ur" \notin f.mode THEN NoCreds                     \* open raises
    ELSE IF f.len < RecordChunks \/ f.kind = "corrupt" THEN NoCreds  \* json.load raises
    ELSE IF f.kind # "obj" THEN NoCreds                         \* line 158
    ELSE LET api_key == SanitizeKey(Strip(PyStr(f.api_key)))
             agent_name == Strip(PyStr(f.agent_name))
         IN  IF api_key # <<>>
             THEN [called |-> TRUE, found |-> TRUE, api_key |-> api_key,
                   agent_name |-> agent_name]
             ELSE NoCreds

\* line 175: os.open(tmp_path, O_WRONLY | O_CREAT | O_TRUNC, 0o600); the mode
\* argument only counts when the file is created
SaveOpenTmp ==
    /\ spc = "open"
    /\ fs' = [fs EXCEPT ![TmpPath] =
                IF @.exists THEN Payload(@.mode, 0, 0) ELSE Payload(Mode600, 0, 0)]
    /\ spc' = "write"
    /\ UNCHANGED <<fs0, saveKey, saveName, crashedAt, loaded, reqVars, mainVars, keyVars>>

\* lines 177-179: f.write(raw); f.flush() hand the bytes to the file system
SaveWrite ==
    /\ spc = "write"
    /\ fs' = [fs EXCEPT ![TmpPath].len = @ + 1]
    /\ spc' = IF fs[TmpPath].len + 1 = RecordChunks THEN "fsync" ELSE "write"
    /\ UNCHANGED <<fs0, saveKey, saveName, crashedAt, loaded, reqVars, mainVars, keyVars>>

\* lines 180-185: os.fsync, then the file is closed
SaveFsync ==
    /\ spc = "fsync"
    /\ fs' = [fs EXCEPT ![TmpPath].synced = fs[TmpPath].len]
    /\ spc' = "replace"
    /\ UNCHANGED <<fs0, saveKey, saveName, crashedAt, loaded, reqVars, mainVars, keyVars>>

\* line 186: os.replace(tmp_path, CREDENTIALS_PATH)
SaveReplace ==
    /\ spc = "replace"
    /\ fs' = [p \in Paths |-> IF p = CredPath THEN fs[TmpPath] ELSE Absent]
    /\ spc' = "chmod"
    /\ UNCHANGED <<fs0, saveKey, saveName, crashedAt, loaded, reqVars, mainVars, keyVars>>

\* lines 187-190: os.chmod(CREDENTIALS_PATH, 0o600), a failure is swallowed
SaveChmod ==
    /\ spc = "chmod"
    /\ \/ fs' = [fs EXCEPT ![CredPath].mode = Mode600]
       \/ UNCHANGED fs
    /\ spc' = "done"
    /\ UNCHANGED <<fs0, saveKey, saveName, crashedAt, loaded, reqVars, mainVars, keyVars>>

\* what a power loss leaves of a file: the part that reached stable storage
Durable(f) == IF f.exists THEN [f EXCEPT !.len = f.synced] ELSE f

\* The process dies inside _save_credentials: killed (the files stay as they
\* are), or with the machine (files keep their synced part, and a rename
\* whose directory entry was not yet on disk may be undone).
Crash ==
    /\ spc \in {"open", "write", "fsync", "replace", "chmod"}
    /\ spc' = "crashed"
    /\ crashedAt' = spc
    /\ \/ UNCHANGED fs
       \/ fs' = [p \in Paths |-> Durable(fs[p])]
       \/ /\ spc = "chmod"
          /\ fs' = [p \in Paths |-> IF p = CredPath THEN fs0 ELSE Durable(fs[CredPath])]
    /\ UNCHANGED <<fs0, saveKey, saveName, loaded, reqVars, mainVars, keyVars>>

\* _load_saved_credentials, called once the save has returned or died
Load ==
    /\ spc \in {"done", "crashed"}
    /\ ~ loaded.called
    /\ loaded' = LoadSavedCredentials(fs[CredPath])
    /\ UNCHANGED <<fs, fs0, saveKey, saveName, spc, crashedAt, reqVars, mainVars, keyVars>>

----------------------------------------------------------------------------
(* The program: _mask_key, _bootstrap and the loop of menu() *)

Min(a, b) == IF a <= b THEN a ELSE b
Max(a, b) == IF a >= b THEN a ELSE b

\* s[:n] and s[-n:]
Prefix(s, n) == SubSeq(s, 1, Min(n, Len(s)))
Suffix(s, n) == SubSeq(s, Max(1, Len(s) - n + 1), Len(s))

\* _mask_key
MaskKey(key) ==
    IF key = <<>> THEN <<"<empty>">>
    ELSE IF Len(key) <= 12 THEN Prefix(key, 2) \o <<"...">> \o Suffix(key, 2)
    ELSE Prefix(key, 8) \o <<"...">> \o Suffix(key, 4)

\* the text k occurs in the text t
Contains(t, k) ==
    \E i \in 0..(Len(t) - Len(k)) : SubSeq(t, i + 1, i + Len(k)) = k

\* _validate_agent_name: None (TRUE here) or an error text
ValidAgentName(n) ==
    /\ Strip(n) # <<>>
    /\ Len(Strip(n)) <= 32
    /\ \A i \in DOMAIN n : n[i] = "a"

\* what the user types at a hidden key prompt (getpass)
KeyInputs == {<<>>, <<ZW>>, <<"a", "a", "a">>, <<SP, DQ, "a", SP, "a", DQ>>}

\* what the user types at a name prompt (stripped by _prompt_nonempty)
NameInputs == {<<"a">>, <<ZW>>}

\* values of the environment variable MOLTBOOK_API_KEY
EnvValues == {<<>>, <<SP>>, <<"a">>, <<SP, DQ, "a", DQ>>}

\* the "agent" member of a registration response
NoAgent ==
    [present |-> FALSE, api_key |-> JMissing, claim_url |-> <<>>,
     verification_code |-> <<>>]
Agents ==
    [present : {TRUE},
     api_key : {JMissing, JNull, JStr(<<"a", "a", "a">>), JStr(<<SP>>)},
     claim_url : {<<>>, <<"u">>},
     verification_code : {<<>>, <<"v">>}]

\* bodies the server may send for POST /agents/register, as request() returns them
RegData ==
    {[kind |-> "empty", agent |-> NoAgent], [kind |-> "nonobj", agent |-> NoAgent],
     [kind |-> "obj", agent |-> NoAgent]}
    \cup [kind : {"obj"}, agent : Agents]

\* what client.register_agent can return or raise (lines 388-389: POST, a
\* JSON body, include_auth=False, so no ValueError)
RegisterResults ==
    [kind : {"ok"}, msg : {<<>>}, data : RegData]
    \cup [kind : {"ApiError"}, msg : {<<"HTTP 429">>, <<"Request timed out.">>},
          data : {[kind |-> "empty", agent |-> NoAgent]}]

\* what an authenticated call of the menu (choices 2-40) can return or raise
\* once _headers has found a key
CallResults ==
    {[kind |-> "ok", msg |-> <<>>], [kind |-> "ApiError", msg |-> <<"HTTP 401">>],
     [kind |-> "ApiError", msg |-> <<"Request timed out.">>]}

\* _pretty_json of a registration response: the text holds the api_key
\* member as json.dumps writes it
PrettyJson(d) ==
    IF d.agent.present /\ d.agent.api_key.t = "str"
    THEN <<"{", DQ>> \o d.agent.api_key.s \o <<DQ, "}">>
    ELSE <<"{", "}">>

\* lines 441 and 530
NewKeyOf(d) == SanitizeKey(Strip(PyStr(d.agent.api_key)))

\* lines 447-452 and 535-540: what is printed about a new key
NewKeyLines(d) ==
    <<<<"IMPORTANT">>, <<"API key (masked): ">> \o MaskKey(NewKeyOf(d))>>
    \o (IF Strip(d.agent.claim_url) # <<>>
        THEN <<<<"Claim URL: ">> \o Strip(d.agent.claim_url)>> ELSE <<>>)
    \o (IF Strip(d.agent.verification_code) # <<>>
        THEN <<<<"Verification code: ">> \o Strip(d.agent.verification_code)>>
        ELSE <<>>)

\* _save_credentials run to its end: the file system it leaves
SavedFs(key, name) ==
    [p \in Paths |->
        IF p = CredPath THEN Record(key, name, Mode600, RecordChunks, RecordChunks)
        ELSE Absent]

\* the methods of MoltbookClient the menu calls (lines 375-398)
ClientCalls == {"get", "post", "delete", "patch", "post_multipart", "register_agent"}

IncludeAuthAlways(fn) == TRUE

\* the include_auth argument each of them passes to request()
IncludeAuth(fn) == fn # "register_agent"

\* the method argument each of them passes to request()
MethodOf(fn) ==
    CASE fn = "get" -> "GET"
      [] fn = "delete" -> "DELETE"
      [] fn = "patch" -> "PATCH"
      [] OTHER -> "POST"

\* lines 299-315: the request a call of fn puts on the network
CallReq(fn) ==
    WireReq(Lower(baseHost), MethodOf(fn), Headers(IncludeAuth(fn), apiKey), FALSE)

restMain == <<envRaw, callRest, fs0, saveKey, saveName, spc, crashedAt, loaded, keyVars>>

\* lines 968-976: an exception that leaves menu() is printed and ends the process
Fatal(lines, msg) ==
    /\ ppc' = "exited"
    /\ exitCode' = 1
    /\ exitCause' = "error"
    /\ out' = out \o lines \o <<<<"ERROR: ">> \o msg>>

\* lines 402-407
BootLoad ==
    /\ ppc = "boot_load"
    /\ consulted' = Append(consulted, "file")
    /\ LET saved == LoadSavedCredentials(fs[CredPath]) IN
       IF saved.found /\ saved.api_key # <<>>
       THEN /\ apiKey' = saved.api_key
            /\ bootKey' = saved.api_key
            /\ ppc' = "menu"
       ELSE /\ UNCHANGED <<apiKey, bootKey>>
            /\ ppc' = "boot_env"
    /\ UNCHANGED <<authDebug, fs, newKey, out, exitCode, exitCause, lastReq, called, restMain>>

\* lines 409-412
BootEnv ==
    /\ ppc = "boot_env"
    /\ consulted' = Append(consulted, "env")
    /\ LET env_key == SanitizeKey(envRaw) IN
       IF env_key # <<>>
       THEN /\ apiKey' = env_key
            /\ bootKey' = env_key
            /\ ppc' = "menu"
       ELSE /\ UNCHANGED <<apiKey, bootKey>>
            /\ ppc' = "boot_prompt"
    /\ UNCHANGED <<authDebug, fs, newKey, out, exitCode, exitCause, lastReq, called, restMain>>

\* lines 414-421: the prompt, answered 0
BootQuit ==
    /\ ppc = "boot_prompt"
    /\ consulted' = Append(consulted, "prompt")
    /\ ppc' = "exited"
    /\ exitCode' = 0
    /\ exitCause' = "quit"
    /\ UNCHANGED <<apiKey, authDebug, bootKey, fs, newKey, out, lastReq, called, restMain>>

\* lines 414-426: the prompt, answered 2
BootEnterKey ==
    /\ ppc = "boot_prompt"
    /\ consulted' = Append(consulted, "prompt")
    /\ \E raw \in KeyInputs :
         /\ apiKey' = SanitizeKey(raw)
         /\ IF apiKey' = <<>>
            THEN /\ Fatal(<<>>, <<"API key required.">>)
                 /\ UNCHANGED bootKey
            ELSE /\ ppc' = "menu"
                 /\ bootKey' = apiKey'
                 /\ UNCHANGED <<out, exitCode, exitCause>>
    /\ UNCHANGED <<authDebug, fs, newKey, lastReq, called, restMain>>

\* lines 414-419 and 428-458: the prompt, answered 1
BootRegister ==
    /\ ppc = "boot_prompt"
    /\ consulted' = Append(consulted, "prompt")
    /\ \E name \in NameInputs, res \in RegisterResults, save \in BOOLEAN :
         IF ~ ValidAgentName(name)
         THEN /\ Fatal(<<>>, <<"Invalid name">>)
              /\ UNCHANGED <<apiKey, bootKey, newKey, fs, lastReq, called>>
         ELSE
         /\ called' = "register_agent"
         /\ lastReq' = CallReq("register_agent")
         /\ IF res.kind # "ok"
            THEN /\ Fatal(<<>>, res.msg)
                 /\ UNCHANGED <<apiKey, bootKey, newKey, fs>>
            ELSE IF ~ res.data.agent.present
            THEN /\ Fatal(<<PrettyJson(res.data)>>, <<"response missing agent object.">>)
                 /\ UNCHANGED <<apiKey, bootKey, newKey, fs>>
            ELSE IF NewKeyOf(res.data) = <<>>
            THEN /\ Fatal(<<PrettyJson(res.data)>>, <<"response missing api_key.">>)
                 /\ UNCHANGED <<apiKey, bootKey, newKey, fs>>
            ELSE /\ out' = out \o <<PrettyJson(res.data)>> \o NewKeyLines(res.data)
                               \o (IF save THEN <<<<"Saved.">>>> ELSE <<>>)
                 /\ fs' = IF save THEN SavedFs(NewKeyOf(res.data), name) ELSE fs
                 /\ newKey' = NewKeyOf(res.data)
                 /\ apiKey' = NewKeyOf(res.data)
                 /\ bootKey' = NewKeyOf(res.data)
                 /\ ppc' = "menu"
                 /\ UNCHANGED <<exitCode, exitCause>>
    /\ UNCHANGED <<authDebug, restMain>>

\* lines 514-515: choice 0
MenuQuit ==
    /\ ppc = "menu"
    /\ ppc' = "exited"
    /\ exitCode' = 0
    /\ exitCause' = "quit"
    /\ UNCHANGED <<apiKey, authDebug, fs, consulted, bootKey, newKey, out, lastReq, called, restMain>>

\* lines 517-547 and 957-963: choice 1
MenuRegister ==
    /\ ppc = "menu"
    /\ ppc' = "pause"
    /\ \E name \in NameInputs, res \in RegisterResults, save \in BOOLEAN, use \in BOOLEAN :
         IF ~ ValidAgentName(name)
         THEN /\ out' = Append(out, <<"Invalid name">>)
              /\ UNCHANGED <<apiKey, newKey, fs, lastReq, called>>
         ELSE
         /\ called' = "register_agent"
         /\ lastReq' = CallReq("register_agent")
         /\ IF res.kind # "ok"
            THEN /\ out' = Append(out, <<"ERROR: ">> \o res.msg)
                 /\ UNCHANGED <<apiKey, newKey, fs>>
            ELSE IF ~ res.data.agent.present \/ NewKeyOf(res.data) = <<>>
            THEN /\ out' = Append(out, PrettyJson(res.data))
                 /\ UNCHANGED <<apiKey, newKey, fs>>
            ELSE /\ out' = out \o <<PrettyJson(res.data)>> \o NewKeyLines(res.data)
                               \o (IF save THEN <<<<"Saved.">>>> ELSE <<>>)
                               \o (IF use THEN <<<<"Active API key updated.">>>> ELSE <<>>)
                 /\ fs' = IF save THEN SavedFs(NewKeyOf(res.data), name) ELSE fs
                 /\ newKey' = NewKeyOf(res.data)
                 /\ apiKey' = IF use THEN NewKeyOf(res.data) ELSE apiKey
    /\ UNCHANGED <<authDebug, consulted, bootKey, exitCode, exitCause, restMain>>

\* lines 549-909 and 957-963: a choice that makes one authenticated call;
\* _headers (lines 265-270) raises without a key and prints the masked key
\* when auth_debug is on
MenuApiCall ==
    /\ ppc = "menu"
    /\ ppc' = "pause"
    /\ \E fn \in ClientCalls \ {"register_agent"} :
         /\ called' = fn
         /\ IF IncludeAuth(fn) /\ apiKey = <<>>
            THEN /\ out' = Append(out, <<"ERROR: ", "API key is not set for this operation.">>)
                 /\ UNCHANGED lastReq
            ELSE /\ lastReq' = CallReq(fn)
                 /\ \E res \in CallResults :
                      out' = out
                        \o (IF IncludeAuth(fn) /\ authDebug
                            THEN <<<<"[auth-debug] Authorization: Bearer ">> \o MaskKey(apiKey)>>
                            ELSE <<>>)
                        \o (IF res.kind = "ok" THEN <<<<"{", "data", "}">>>>
                            ELSE <<<<"ERROR: ">> \o res.msg>>)
    /\ UNCHANGED <<apiKey, authDebug, fs, consulted, bootKey, newKey, exitCode, exitCause, restMain>>

KeyFoundAlways(k) == TRUE

\* lines 934, 940 and 947: the source chosen at "Switch API key" gave a key
KeyFound(k) == k # <<>>

\* lines 917-920: choice 42
MenuToggleDebug ==
    /\ ppc = "menu"
    /\ ppc' = "pause"
    /\ authDebug' = ~ authDebug
    /\ out' = Append(out, <<"Auth debug is now: ", IF authDebug' THEN "ON" ELSE "OFF">>)
    /\ UNCHANGED <<apiKey, fs, consulted, bootKey, newKey, exitCode, exitCause, lastReq, called, restMain>>

\* lines 922-955: choice 43
MenuSwitchKey ==
    /\ ppc = "menu"
    /\ ppc' = "pause"
    /\ \E c \in 0..3 :
         CASE c = 0 -> UNCHANGED <<apiKey, fs, out>>
           [] c = 1 ->
                LET saved == LoadSavedCredentials(fs[CredPath]) IN
                IF ~ saved.found \/ ~ KeyFound(saved.api_key)
                THEN /\ out' = Append(out, <<"No saved credentials found.">>)
                     /\ UNCHANGED <<apiKey, fs>>
                ELSE /\ apiKey' = saved.api_key
                     /\ out' = Append(out, <<"Active API key updated (from saved credentials).">>)
                     /\ UNCHANGED fs
           [] c = 2 ->
                LET env_key == SanitizeKey(envRaw) IN
                IF ~ KeyFound(env_key)
                THEN /\ out' = Append(out, <<"No env key found.">>)
                     /\ UNCHANGED <<apiKey, fs>>
                ELSE /\ apiKey' = env_key
                     /\ out' = Append(out, <<"Active API key updated (from env).">>)
                     /\ UNCHANGED fs
           [] OTHER ->
                \E raw \in KeyInputs, save \in BOOLEAN, name \in {<<>>} \cup NameInputs :
                  LET k == SanitizeKey(raw) IN
                  IF ~ KeyFound(k)
                  THEN /\ out' = Append(out, <<"API key required.">>)
                       /\ UNCHANGED <<apiKey, fs>>
                  ELSE /\ apiKey' = k
                       /\ out' = out \o <<<<"Active API key updated.">>>>
                                     \o (IF save THEN <<<<"Saved.">>>> ELSE <<>>)
                       /\ fs' = IF save THEN SavedFs(k, Strip(name)) ELSE fs
    /\ UNCHANGED <<authDebug, consulted, bootKey, newKey, exitCode, exitCause, lastReq, called, restMain>>

\* line 965: "Press Enter to continue...", then the menu is shown again
Continue ==
    /\ ppc = "pause"
    /\ ppc' = "menu"
    /\ out' = <<>>
    /\ newKey' = <<>>
    /\ called' = "none"
    /\ lastReq' = NoReq
    /\ UNCHANGED <<apiKey, authDebug, fs, consulted, bootKey, exitCode, exitCause, restMain>>

\* lines 414-458 and 970-973: Ctrl-C at the prompt of _bootstrap or later in
\* it (a prompt of the registration, the network call); _bootstrap runs
\* outside the try of menu(), so the KeyboardInterrupt reaches __main__
BootInterrupt ==
    /\ ppc = "boot_prompt"
    /\ consulted' = Append(consulted, "prompt")
    /\ ppc' = "exited"
    /\ exitCode' = 130
    /\ exitCause' = "interrupt"
    /\ out' = Append(out, <<"Interrupted.">>)
    /\ UNCHANGED <<apiKey, authDebug, bootKey, fs, newKey, lastReq, called, restMain>>

\* lines 511, 965 and 970-973: Ctrl-C at "Select: " or at "Press Enter to
\* continue...", both outside the try of menu()
PromptInterrupt ==
    /\ ppc \in {"menu", "pause"}
    /\ ppc' = "exited"
    /\ exitCode' = 130
    /\ exitCause' = "interrupt"
    /\ out' = Append(out, <<"Interrupted.">>)
    /\ UNCHANGED <<apiKey, authDebug, fs, consulted, bootKey, newKey, lastReq, called, restMain>>

\* lines 513-955 and 959-961: Ctrl-C while the chosen action runs (at one of
\* its prompts, during its network call); menu() prints and returns, and the
\* script ends the normal way
ActionInterrupt ==
    /\ ppc = "menu"
    /\ ppc' = "exited"
    /\ exitCode' = 0
    /\ exitCause' = "interrupt"
    /\ out' = Append(out, <<"Interrupted.">>)
    /\ UNCHANGED <<apiKey, authDebug, fs, consulted, bootKey, newKey, lastReq, called, restMain>>

\* credential files the program may find when it starts
StartFiles ==
    {Absent,
     File("obj", JStr(OldKey), JStr(OldName), RecordChunks, RecordChunks, Mode600),
     File("obj", JStr(OldKey), JStr(OldName), RecordChunks, RecordChunks, {}),
     File("obj", JStr(OldKey), JStr(OldName), 1, 1, Mode600),
     File("corrupt", JMissing, JMissing, RecordChunks, RecordChunks, Mode600),
     File("nondict", JMissing, JMissing, RecordChunks, RecordChunks, Mode600),
     File("obj", JMissing, JStr(OldName), RecordChunks, RecordChunks, Mode600),
     File("obj", JStr(<<SP>>), JStr(OldName), RecordChunks, RecordChunks, Mode600),
     File("obj", JNull, JStr(OldName), RecordChunks, RecordChunks, Mode600)}

----------------------------------------------------------------------------
(* _sanitize_key and _mask_key as functions of one text *)

\* keys of letters and digits, as the server issues them
PlainKeys == UNION {[1..k -> {"a", "b"}] : k \in 0..MaxMaskLen}

\* texts a key may arrive as: typed or pasted with quotes, blanks and
\* zero-width characters, or a plain key of any length
KeyTexts == Strings(MaxKeyLen) \cup PlainKeys

\* s = _sanitize_key(raw)
Sanitize ==
    /\ kpc = "raw"
    /\ keyClean' = SanitizeKey(keyRaw)
    /\ kpc' = "clean"
    /\ UNCHANGED <<keyRaw, keyAgain, keyMasked, reqVars, saveVars, mainVars>>

\* _sanitize_key(s), as _load_saved_credentials does with a key that was
\* sanitized before it was saved
SanitizeAgain ==
    /\ kpc = "clean"
    /\ keyAgain' = SanitizeKey(keyClean)
    /\ kpc' = "again"
    /\ UNCHANGED <<keyRaw, keyClean, keyMasked, reqVars, saveVars, mainVars>>

\* _mask_key(s)
Mask ==
    /\ kpc = "clean"
    /\ keyMasked' = MaskKey(keyClean)
    /\ kpc' = "masked"
    /\ UNCHANGED <<keyRaw, keyClean, keyAgain, reqVars, saveVars, mainVars>>

----------------------------------------------------------------------------
(* Specifications *)

IdleKey ==
    /\ kpc = "idle"
    /\ keyRaw = <<>>
    /\ keyClean = <<>>
    /\ keyAgain = <<>>
    /\ keyMasked = <<>>

IdleReq ==
    /\ baseHost = CanonicalHost
    /\ method = "GET"
    /\ hasJson = FALSE
    /\ hasRaw = FALSE
    /\ includeAuth = TRUE
    /\ expectedJson = TRUE
    /\ apiKey = <<>>
    /\ authDebug = FALSE
    /\ rpc = "idle"
    /\ attempt = 0
    /\ sleeps = <<>>
    /\ outcomes = <<>>
    /\ sent = 0
    /\ lastReq = NoReq
    /\ pending = NoResp
    /\ hops = 0
    /\ result = NoResult

IdleSave ==
    /\ fs = [p \in Paths |-> Absent]
    /\ fs0 = Absent
    /\ saveKey = <<>>
    /\ saveName = <<>>
    /\ spc = "idle"
    /\ crashedAt = "none"
    /\ loaded = NotLoaded

IdleMain ==
    /\ ppc = "idle"
    /\ envRaw = <<>>
    /\ consulted = <<>>
    /\ bootKey = <<>>
    /\ newKey = <<>>
    /\ out = <<>>
    /\ called = "none"
    /\ exitCode = NoExit
    /\ exitCause = "none"

SampleKeys == {<<>>, <<"a", "b">>}

InitReq ==
    /\ IdleSave
    /\ IdleMain
    /\ IdleKey
    /\ baseHost \in BaseHosts
    /\ method \in Methods
    /\ hasJson \in BOOLEAN
    /\ hasRaw \in BOOLEAN
    /\ includeAuth \in BOOLEAN
    /\ expectedJson \in BOOLEAN
    /\ apiKey \in SampleKeys
    /\ authDebug = FALSE
    /\ rpc = "start"
    /\ attempt = 0
    /\ sleeps = <<>>
    /\ outcomes = <<>>
    /\ sent = 0
    /\ lastReq = NoReq
    /\ pending = NoResp
    /\ hops = 0
    /\ result = NoResult

NextReq == ReqPrepare \/ ReqAttempt \/ ReqFollow

SpecReq == InitReq /\ [][NextReq]_vars

\* the keys the program passes on: every one went through _sanitize_key
\* (lines 441, 530, 946)
SanitizedKeys == {SanitizeKey(r) : r \in Strings(MaxKeyLen)} \ {<<>>}

\* the names it passes on: every one was stripped (lines 67, 78)
StrippedNames == {Strip(n) : n \in Strings(1)}

OldFiles == {File("obj", JStr(OldKey), JStr(OldName), RecordChunks, RecordChunks, m) :
                m \in {Mode600, Mode644}}

\* a temporary file left behind by an earlier run or put there by someone else
StaleTmpFiles == {File("obj", JStr(OldKey), JStr(OldName), 1, 1, m) :
                     m \in {Mode600, Mode644}}

InitSave ==
    /\ IdleReq
    /\ IdleMain
    /\ IdleKey
    /\ saveKey \in SanitizedKeys
    /\ saveName \in StrippedNames
    /\ fs0 \in {Absent} \cup OldFiles
    /\ \E t \in {Absent} \cup StaleTmpFiles :
          fs = [p \in Paths |-> IF p = CredPath THEN fs0 ELSE t]
    /\ spc = "open"
    /\ crashedAt = "none"
    /\ loaded = NotLoaded

NextSave ==
    SaveOpenTmp \/ SaveWrite \/ SaveFsync \/ SaveReplace \/ SaveChmod \/ Crash \/ Load

SpecSave == InitSave /\ [][NextSave]_vars

InitKey ==
    /\ IdleReq
    /\ IdleSave
    /\ IdleMain
    /\ kpc = "raw"
    /\ keyRaw \in KeyTexts
    /\ keyClean = <<>>
    /\ keyAgain = <<>>
    /\ keyMasked = <<>>

NextKey == Sanitize \/ SanitizeAgain \/ Mask

SpecKey == InitKey /\ [][NextKey]_vars

Init ==
    /\ IdleReq
    /\ IdleKey
    /\ fs0 \in StartFiles
    /\ fs = [p \in Paths |-> IF p = CredPath THEN fs0 ELSE Absent]
    /\ saveKey = <<>>
    /\ saveName = <<>>
    /\ spc = "idle"
    /\ crashedAt = "none"
    /\ loaded = NotLoaded
    /\ envRaw \in EnvValues
    /\ ppc = "boot_load"
    /\ consulted = <<>>
    /\ bootKey = <<>>
    /\ newKey = <<>>
    /\ out = <<>>
    /\ called = "none"
    /\ exitCode = NoExit
    /\ exitCause = "none"

Next ==
    \/ BootLoad \/ BootEnv \/ BootQuit \/ BootEnterKey \/ BootRegister
    \/ MenuQuit \/ MenuRegister \/ MenuApiCall \/ MenuToggleDebug \/ MenuSwitchKey
    \/ Continue
    \/ BootInterrupt \/ PromptInterrupt \/ ActionInterrupt

Spec == Init /\ [][Next]_vars

----------------------------------------------------------------------------
(* Properties of MoltbookClient.request, checked under SpecReq *)

IsTimeout(r) == r.kind \in {"timeout", "url_timeout"}

TimeoutError ==
    Err("ApiError", "Request timed out. Increase timeout or retry later.",
        NoStatus, "empty_dict")

\* C2: a POST, PATCH or DELETE request whose attempt times out is not
\* retried: that attempt is the only urlopen call, no backoff sleep is made,
\* and request() has failed with the timeout ApiError.
C2_NonIdempotentTimeoutNotRetried ==
    (method \in {"POST", "PATCH", "DELETE"}
        /\ \E i \in DOMAIN outcomes : IsTimeout(outcomes[i]))
    => /\ Len(outcomes) = 1
       /\ sleeps = <<>>
       /\ rpc = "done"
       /\ result = TimeoutError

C2_Witness ==
    /\ method = "POST"
    /\ rpc = "done"
    /\ Len(outcomes) = 1 /\ IsTimeout(outcomes[1])

\* C3: a GET request that times out on every attempt makes
\* MAX_RETRIES_IDEMPOTENT + 1 = 3 attempts, sleeps before each retry for
\* RETRY_BACKOFF_SECONDS * (attempt number), a strictly increasing series,
\* and then fails with the timeout ApiError.
C3_GetTimeoutRetriedWithBackoff ==
    (method = "GET" /\ \A i \in DOMAIN outcomes : IsTimeout(outcomes[i]))
    => /\ rpc = "try" => Len(outcomes) <= MAX_RETRIES_IDEMPOTENT
       /\ rpc = "try" => Len(sleeps) = Len(outcomes)
       /\ \A i \in DOMAIN sleeps : sleeps[i] = RETRY_BACKOFF_TENTHS * i
       /\ \A i \in DOMAIN sleeps : i > 1 => sleeps[i] > sleeps[i - 1]
       /\ (rpc = "done" /\ outcomes # <<>>)
            => /\ Len(outcomes) = MAX_RETRIES_IDEMPOTENT + 1
               /\ Len(sleeps) = MAX_RETRIES_IDEMPOTENT
               /\ result = TimeoutError

C3_Witness ==
    /\ method = "GET"
    /\ rpc = "done"
    /\ Len(outcomes) = 3
    /\ \A i \in DOMAIN outcomes : IsTimeout(outcomes[i])
    /\ sleeps = <<15, 30>>

\* an HTTP error status, a TLS failure or a network failure that is no timeout
IsHardFailure(r) ==
    \/ r.kind = "http" /\ r.status >= 400
    \/ r.kind \in {"ssl", "urlerror"}

\* C4: whatever the method, an attempt that ends in an HTTP error status, a
\* TLS failure or a non-timeout network failure is the last attempt: the
\* call has failed with an ApiError, and every attempt before it was a timeout.
C4_OnlyTimeoutsAreRetried ==
    \A i \in DOMAIN outcomes :
        /\ IsHardFailure(outcomes[i])
            => /\ i = Len(outcomes)
               /\ rpc = "done"
               /\ result.kind = "ApiError"
               /\ result.msg \in {"HTTP", "TLS/SSL error", "Network error"}
        /\ i < Len(outcomes) => IsTimeout(outcomes[i])

C4_Witness ==
    /\ method = "GET"
    /\ rpc = "done"
    /\ Len(outcomes) = 2
    /\ IsTimeout(outcomes[1])
    /\ outcomes[2].kind = "http" /\ outcomes[2].status = 500

\* C5: with a base host other than www.moltbook.com (the bare apex
\* included) the call fails with the ValueError of _ensure_www and nothing is
\* put on the network; a request is only ever sent after the host check passed.
C5_ForeignHostRejectedBeforeNetwork ==
    /\ (Lower(baseHost) \notin {CanonicalHost, NoHost})
        => /\ sent = 0
           /\ lastReq = NoReq
           /\ outcomes = <<>>
           /\ rpc = "done" => result = Err("ValueError", "Refusing host", NoStatus, "none")
           /\ rpc \in {"start", "done"}
    /\ sent > 0 => Lower(baseHost) = CanonicalHost

C5_Witness ==
    /\ baseHost = ApexHost
    /\ rpc = "done"
    /\ result.kind = "ValueError"

\* C6: a 3xx response is never followed (no request is sent on to the
\* redirect target) and the result of the call exposes the Location value
\* and a warning field.
C6_RedirectNeverFollowed ==
    /\ ~ lastReq.viaRedirect
    /\ (rpc = "done" /\ outcomes # <<>>
          /\ outcomes[Len(outcomes)].kind = "http"
          /\ outcomes[Len(outcomes)].status \in 300..399)
        => {"location", "warning"} \subseteq ResultFields(result)

\* the response the latest urlopen call handed to request()
LastOutcome == outcomes[Len(outcomes)]

\* C13: a call that expects JSON and gets a 2xx response with a JSON object
\* body returns a mapping with the fields of the body and a status_code
\* field equal to the status of the response.
C13_SuccessCarriesStatusCode ==
    (rpc = "done" /\ expectedJson /\ outcomes # <<>>
        /\ LastOutcome.kind = "http" /\ LastOutcome.status \in 200..299
        /\ LastOutcome.body = "obj")
    => /\ result.kind = "ok"
       /\ {"id", "title"} \subseteq ResultFields(result)
       /\ "status_code" \in ResultFields(result)
       /\ result.status = LastOutcome.status

\* C14: a response with a status of 400 or more ends the call with an
\* ApiError that carries that status; when its body is a JSON object the
\* details of the error are that object, so the 429 body
\* {"error":"rate limited","retry_after_seconds":30} gives details with
\* retry_after_seconds = 30.
C14_HttpErrorKeepsStatusAndDetails ==
    /\ \A i \in DOMAIN outcomes :
          (outcomes[i].kind = "http" /\ outcomes[i].status >= 400)
          => i = Len(outcomes) /\ rpc = "done"
    /\ (rpc = "done" /\ outcomes # <<>>
          /\ LastOutcome.kind = "http" /\ LastOutcome.status >= 400)
        => /\ result.kind = "ApiError"
           /\ result.status = LastOutcome.status
           /\ JsonObject(LastOutcome.body) => Details(result) = Parsed(LastOutcome.body)
           /\ LastOutcome.body = "rate_obj" => Details(result).retry_after_seconds = 30

C14_Witness ==
    /\ rpc = "done"
    /\ outcomes # <<>>
    /\ LastOutcome.kind = "http" /\ LastOutcome.status = 429
    /\ LastOutcome.body = "rate_obj"
    /\ result.status = 429
    /\ Details(result).retry_after_seconds = 30

\* C21: a call that expects JSON and gets a 2xx response whose non-empty
\* body is no JSON fails with the ApiError raised where the body is parsed:
\* it carries the status of the response and the message
\* "Server returned non-JSON response.".
C21_NonJsonErrorReachesCaller ==
    (rpc = "done" /\ expectedJson /\ outcomes # <<>>
        /\ LastOutcome.kind = "http" /\ LastOutcome.status \in 200..299
        /\ LastOutcome.body = "nonjson")
    => /\ result.kind = "ApiError"
       /\ result.status = LastOutcome.status
       /\ result.msg = "Server returned non-JSON response."

\* C17: a call given both json_body and raw_body, or an authenticated call
\* of a client without a key, fails with a ValueError before anything is
\* sent: no request is put on the network, no attempt is made, nothing is
\* retried.
C17_ConfigErrorBeforeNetwork ==
    ((hasJson /\ hasRaw) \/ (includeAuth /\ apiKey = <<>>))
    => /\ sent = 0
       /\ lastReq = NoReq
       /\ outcomes = <<>>
       /\ sleeps = <<>>
       /\ attempt = 0
       /\ rpc \in {"start", "done"}
       /\ rpc = "done" =>
            /\ result.kind = "ValueError"
            /\ (EnsureWwwOk(baseHost) /\ hasJson /\ hasRaw)
                 => result.msg = "Provide either json_body or raw_body, not both."
            /\ (EnsureWwwOk(baseHost) /\ ~ (hasJson /\ hasRaw))
                 => result.msg = "API key is not set for this operation."

C17_Witness ==
    /\ rpc = "done"
    /\ baseHost = CanonicalHost
    /\ includeAuth /\ apiKey = <<>>
    /\ ~ (hasJson /\ hasRaw)
    /\ sent = 0
    /\ result = Err("ValueError", "API key is not set for this operation.", NoStatus, "none")

----------------------------------------------------------------------------
(* Properties of _sanitize_key and _mask_key, checked under SpecKey *)

\* C11: _sanitize_key is idempotent: for every text, sanitizing the
\* sanitized text again gives the sanitized text.
C11_SanitizeIdempotent ==
    kpc = "again" => keyAgain = keyClean

\* C12: _mask_key("") is the placeholder; a non-empty key of at most 12
\* characters is shown as its first 2 characters, the ellipsis and its last
\* 2, a longer one as its first 8, the ellipsis and its last 4; and the
\* characters shown never cover every position of a non-empty key.
C12_MaskHidesPartOfKey ==
    kpc = "masked" =>
        LET n == Len(keyClean) IN
        /\ n = 0 => keyMasked = <<"<empty>">>
        /\ (n > 0 /\ n <= 12) =>
               keyMasked = Prefix(keyClean, 2) \o <<"...">> \o Suffix(keyClean, 2)
        /\ n > 12 =>
               keyMasked = Prefix(keyClean, 8) \o <<"...">> \o Suffix(keyClean, 4)
        /\ n > 0 => Len(keyMasked) - 1 < n

----------------------------------------------------------------------------
(* Properties of the credential file, checked under SpecSave *)

\* C8: whatever the step at which the process dies, the credential file
\* holds its complete previous content (or is absent as before) or the
\* complete new record, never a part of a record.
C8_SaveIsCrashAtomic ==
    \/ Content(fs[CredPath]) = Content(fs0)
    \/ Content(fs[CredPath]) = NewContent

C8_Witness ==
    /\ spc = "crashed"
    /\ crashedAt = "write"
    /\ fs[TmpPath].exists /\ fs[TmpPath].len < RecordChunks
    /\ fs0.exists
    /\ Content(fs[CredPath]) = Content(fs0)

\* C9: after _save_credentials(api_key, agent_name) has returned,
\* _load_saved_credentials returns exactly that api_key and agent_name.
C9_SaveThenLoadRoundTrip ==
    (spc = "done" /\ loaded.called /\ "ur" \in fs[CredPath].mode)
    => /\ loaded.found
       /\ loaded.api_key = saveKey
       /\ loaded.agent_name = saveName

\* C10: from the rename on, the credential file written by
\* _save_credentials has the permission bits 0600 and no others.
C10_SavedFileIsOwnerOnly ==
    (spc \in {"chmod", "done", "crashed"} /\ Content(fs[CredPath]) = NewContent)
    => fs[CredPath].mode = Mode600

----------------------------------------------------------------------------
(* Properties of the program, checked under Spec *)

\* C1: nothing the program prints contains a whole API key (the active key
\* of the client or the key of the registration being handled); only
\* masked forms are printed.
C1_RawKeyNeverPrinted ==
    \A i \in DOMAIN out :
        \A k \in {apiKey, newKey} \ {<<>>} : ~ Contains(out[i], k)

KeySourceOrder == <<"file", "env", "prompt">>

\* a credential file that is unreadable, corrupt, cut short, no JSON object,
\* or has no api_key or a blank one
BrokenOrKeyless(f) ==
    /\ f.exists
    /\ \/ "ur" \notin f.mode
       \/ f.kind \in {"corrupt", "nondict"}
       \/ f.len < RecordChunks
       \/ f.api_key.t = "missing"
       \/ f.api_key.t = "str" /\ SanitizeKey(JsonUnescape(f.api_key.s)) = <<>>

HoldsKey(f) == f.exists /\ ~ BrokenOrKeyless(f)

C15_NoErrorIsFatal ==
    /\ exitCause # "error"
    /\ ppc = "exited" => exitCause \in {"quit", "interrupt"}

\* C16: the exit code is 0 after a quit, 130 after an interrupt wherever it
\* arrived, and a third value, neither 0 nor 130, after a failure that
\* reached the top level.
C16_ExitCodeTellsCause ==
    ppc = "exited" =>
        /\ exitCause = "quit" => exitCode = 0
        /\ exitCause = "interrupt" => exitCode = 130
        /\ exitCause = "error" => exitCode \notin {0, 130}

\* what the running action put on the network, if it called the client
ActionSent == called # "none" /\ lastReq # NoReq

\* C18: the request of a registration carries no Authorization header; the
\* request of every other call of a menu action carries the active key of
\* the client in its Authorization header, and such a call sends nothing
\* only when the client has no key.
C18_OnlyRegistrationIsUnauthenticated ==
    /\ (ActionSent /\ called = "register_agent") => lastReq.auth = <<>>
    /\ (ActionSent /\ called # "register_agent")
        => lastReq.auth = apiKey /\ lastReq.auth # <<>>
    /\ (called # "none" /\ lastReq = NoReq)
        => called # "register_agent" /\ apiKey = <<>>

C18_Witness ==
    /\ ppc = "pause"
    /\ called = "patch"
    /\ lastReq = WireReq(CanonicalHost, "PATCH", apiKey, FALSE)
    /\ apiKey # <<>>

\* C19: whenever the menu is about to read a selection, the active key of
\* the client is non-empty and holds no whitespace and no zero-width
\* character, whatever was done before (registration, key switches that
\* worked, failed or were cancelled).
C19_ActiveKeyIsClean ==
    ppc \in {"menu", "pause"}
    => /\ apiKey # <<>>
       /\ \A i \in DOMAIN apiKey : apiKey[i] \notin {SP, ZW}

C19_Witness ==
    /\ ppc = "menu"
    /\ apiKey = <<"a", "a">>
    /\ apiKey = SanitizeKey(<<SP, DQ, "a", SP, "a", DQ>>)
    /\ bootKey # apiKey

\* the lines that report a new active key (lines 546, 937, 943, 950)
KeyUpdatedLines ==
    {<<"Active API key updated.">>,
     <<"Active API key updated (from saved credentials).">>,
     <<"Active API key updated (from env).">>}

Printed(lines) == \E i \in DOMAIN out : out[i] \in lines

\* C20: once the menu runs, a step changes the active key only if it is
\* choice 43 with a source that gave a non-empty key, or choice 1 with a
\* registration that returned a key which the user chose to use; every
\* other step (any other choice, a failed call, a cancelled or failed
\* switch, an interrupt) leaves the key as it was.
C20_KeyChangesOnlyBySwitchOrRegister ==
    [][(ppc \in {"menu", "pause"} /\ apiKey' # apiKey)
        => \/ /\ MenuSwitchKey
              /\ apiKey' # <<>>
              /\ Printed(KeyUpdatedLines)'
           \/ /\ MenuRegister
              /\ called' = "register_agent"
              /\ newKey' # <<>>
              /\ apiKey' = newKey'
              /\ Printed({<<"Active API key updated.">>})']_vars

C20_Witness ==
    /\ ppc = "pause"
    /\ called = "register_agent"
    /\ newKey # <<>>
    /\ apiKey = newKey
    /\ apiKey # bootKey
    /\ Printed({<<"Active API key updated.">>})

====
